---- MODULE Spec2Model ----
(***************************************************************************)
(* RegressionModel (darts/models/regression_model.py): a lag-feature       *)
(* builder and an autoregressive prediction loop around an estimator       *)
(* exposing fit/predict.                                                   *)
(*                                                                         *)
(* Time stamps are integers and the frequency is one step.  A time series  *)
(* or data frame is a record [times, cols, rows]: the time index, the      *)
(* column names and one sequence of values per time stamp.  Real values    *)
(* are modelled by integers.                                               *)
(***************************************************************************)
EXTENDS Integers, Sequences, FiniteSets, TLC

\* Largest integer lag argument given to the constructor.
MaxK == 2
\* Largest forecast horizon n given to predict.
MaxN == 3

-----------------------------------------------------------------------------
(* Python values of the constructor arguments.                             *)

NoneV == [kind |-> "None", int |-> 0, list |-> <<>>]
IntV(k) == [kind |-> "int", int |-> k, list |-> <<>>]
\* bool is a subclass of int: True is 1 and False is 0
BoolV(b) == [kind |-> "bool", int |-> (IF b THEN 1 ELSE 0), list |-> <<>>]
ListV(s) == [kind |-> "list", int |-> 0, list |-> s]

\* isinstance(x, int): True for bool as well
IsInt(x) == x.kind \in {"int", "bool"}
IsList(x) == x.kind = "list"
IsNone(x) == x.kind = "None"
IsTrue(x) == x.kind = "bool" /\ x.int = 1
IsFalse(x) == x.kind = "bool" /\ x.int = 0

\* mutant: range(1, k) in place of range(1, k+1)
Range1_short(k) == [j \in 1..(k - 1) |-> j]

\* list(range(1, k+1))
Range1(k) == [j \in 1..k |-> j]

\* max(list); only used on non-empty lists
SeqMax(s) == CHOOSE m \in {s[j] : j \in DOMAIN s} : \A j \in DOMAIN s : s[j] <= m

\* x in list
InSeq(x, s) == \E j \in DOMAIN s : s[j] = x

RECURSIVE SeqSum(_)
SeqSum(s) == IF s = <<>> THEN 0 ELSE s[1] + SeqSum(Tail(s))

-----------------------------------------------------------------------------
(* Optional values (None or a value).                                      *)

Nothing == [some |-> FALSE, v |-> <<>>]
Some(x) == [some |-> TRUE, v |-> x]

-----------------------------------------------------------------------------
(* Errors.  raise_if / raise_if_not signal the spec's ConfigurationError;  *)
(* the other kinds are the uncontrolled Python failures of the code.       *)

NoError == "none"
ConfigurationError == "ConfigurationError"
NotFittedError == "NotFittedError"
EstimatorError == "EstimatorError"
ModelObjectError == "Exception"
KeyError == "KeyError"
EmptyMaxError == "ValueError"
ShapeError == "ValueError"
AttributeError == "AttributeError"
IndexError == "IndexError"

-----------------------------------------------------------------------------
(* RegressionModel.__init__                                                *)

\* callable(getattr(model, "fit", None)); getattr(None, "fit", None) is None
has_fit(model) == model \in {"estimator", "estimator2d", "no_predict", "LinearRegression"}
\* callable(getattr(model, "predict", None))
has_predict(model) == model \in {"estimator", "estimator2d", "no_fit", "LinearRegression"}

\* lines 75-76: if model is None: model = LinearRegression(n_jobs=-1, fit_intercept=False)
init_model(a_model) == IF a_model = "None" THEN "LinearRegression" ELSE a_model

\* self.lags: an int k > 0 becomes [1..k], a list is kept after validation
init_lags(lags) ==
    IF IsInt(lags)
    THEN IF lags.int > 0
         THEN [err |-> NoError, v |-> ListV(Range1(lags.int))]
         ELSE [err |-> ConfigurationError, v |-> lags]
    ELSE IF IsList(lags)
    THEN IF \E j \in DOMAIN lags.list : lags.list[j] <= 0
         THEN [err |-> ConfigurationError, v |-> lags]
         ELSE [err |-> NoError, v |-> lags]
    ELSE [err |-> NoError, v |-> lags]

\* self.lags_exog: True copies self.lags, False is [0], an int k > 0 becomes
\* [1..k], a list is kept after validation
init_lags_exog(lags_exog, self_lags) ==
    IF IsTrue(lags_exog)
    THEN [err |-> NoError, v |-> self_lags]
    ELSE IF IsFalse(lags_exog)
    THEN [err |-> NoError, v |-> ListV(<<0>>)]
    ELSE IF IsInt(lags_exog)
    THEN IF lags_exog.int > 0
         THEN [err |-> NoError, v |-> ListV(Range1(lags_exog.int))]
         ELSE [err |-> ConfigurationError, v |-> lags_exog]
    ELSE IF IsList(lags_exog)
    THEN IF \E j \in DOMAIN lags_exog.list : lags_exog.list[j] < 0
         THEN [err |-> ConfigurationError, v |-> lags_exog]
         ELSE [err |-> NoError, v |-> lags_exog]
    ELSE [err |-> NoError, v |-> lags_exog]

\* max() of an empty list raises ValueError
py_max(s) == IF s = <<>> THEN [err |-> EmptyMaxError, v |-> 0]
             ELSE [err |-> NoError, v |-> SeqMax(s)]

\* self.max_lag
init_max_lag(self_lags, self_lags_exog) ==
    IF ~IsNone(self_lags) /\ IsNone(self_lags_exog)
    THEN py_max(self_lags.list)
    ELSE IF IsNone(self_lags) /\ ~IsNone(self_lags_exog)
    THEN py_max(self_lags_exog.list)
    ELSE LET a == py_max(self_lags.list)
             b == py_max(self_lags_exog.list)
         IN  IF a.err # NoError THEN a
             ELSE IF b.err # NoError THEN b
             ELSE py_max(<<a.v, b.v>>)

\* The constructor: the error it raises, or the configuration it stores.
RegressionModel_init(a_lags, a_lags_exog, a_model) ==
    LET fail(e) == [err |-> e, lags |-> NoneV, lags_exog |-> NoneV, max_lag |-> 0,
                    model |-> "None"]
        l  == init_lags(a_lags)
        le == init_lags_exog(a_lags_exog, l.v)
        m  == init_max_lag(l.v, le.v)
    IN  IF IsNone(a_lags) /\ IsNone(a_lags_exog) THEN fail(ConfigurationError)
        ELSE IF IsNone(a_lags) /\ IsTrue(a_lags_exog) THEN fail(ConfigurationError)
        ELSE IF ~has_fit(a_model) THEN fail(ModelObjectError)
        ELSE IF ~has_predict(a_model) THEN fail(ModelObjectError)
        ELSE IF l.err # NoError THEN fail(l.err)
        ELSE IF le.err # NoError THEN fail(le.err)
        ELSE IF m.err # NoError THEN fail(m.err)
        ELSE [err |-> NoError, lags |-> l.v, lags_exog |-> le.v, max_lag |-> m.v,
              model |-> init_model(a_model)]

-----------------------------------------------------------------------------
(* TimeSeries / DataFrame operations used by the model.                    *)

SeriesOf(start, cols, rows) ==
    [times |-> [j \in 1..Len(rows) |-> start + j - 1], cols |-> cols, rows |-> rows]

width(s) == Len(s.cols)
start_time(s) == s.times[1]
end_time(s) == s.times[Len(s.times)]
freq == 1

\* positions of the columns named name, in column order
ColIdx(cols, name) == SelectSeq([j \in 1..Len(cols) |-> j], LAMBDA j : cols[j] = name)

RECURSIVE ColsIdx(_, _)
ColsIdx(cols, names) ==
    IF names = <<>> THEN <<>>
    ELSE ColIdx(cols, names[1]) \o ColsIdx(cols, Tail(names))

\* series[[names]] fails when a name is not a column of the series
select_error(s, names) ==
    IF \E k \in 1..Len(names) : ColIdx(s.cols, names[k]) = <<>> THEN KeyError ELSE NoError

\* series[[names]]: the columns carrying one of the names
select_columns(s, names) ==
    LET idx == ColsIdx(s.cols, names)
    IN  [times |-> s.times,
         cols  |-> [c \in 1..Len(idx) |-> s.cols[idx[c]]],
         rows  |-> [j \in 1..Len(s.rows) |-> [c \in 1..Len(idx) |-> s.rows[j][idx[c]]]]]

\* series.has_same_time_as(other)
has_same_time_as(s, other) == s.times = other.times

\* series.stack(other) is refused unless both series have the same time index
stack_error(s, other) ==
    IF has_same_time_as(s, other) THEN NoError ELSE ConfigurationError

\* series.stack(other): columns side by side over the same time index
stack(s, other) ==
    [times |-> s.times,
     cols  |-> s.cols \o other.cols,
     rows  |-> [j \in 1..Len(s.rows) |-> s.rows[j] \o other.rows[j]]]

\* series[-k:] for k > 0
last_rows(s, k) ==
    LET n == Len(s.rows)
        d == IF k >= n THEN 0 ELSE n - k
    IN  [times |-> SubSeq(s.times, d + 1, n), cols |-> s.cols,
         rows  |-> SubSeq(s.rows, d + 1, n)]

\* series[:-1]
drop_last(s) ==
    [times |-> SubSeq(s.times, 1, Len(s.times) - 1), cols |-> s.cols,
     rows  |-> SubSeq(s.rows, 1, Len(s.rows) - 1)]

\* series[1:]
drop_first(s) ==
    [times |-> Tail(s.times), cols |-> s.cols, rows |-> Tail(s.rows)]

\* series.append_values(rows): the new rows follow at the series' frequency
append_values(s, new_rows) ==
    [times |-> s.times \o [j \in 1..Len(new_rows) |-> end_time(s) + j * freq],
     cols  |-> s.cols,
     rows  |-> s.rows \o new_rows]

\* rows of another width than the series cannot be appended
append_error(s, new_rows) ==
    IF \E j \in 1..Len(new_rows) : Len(new_rows[j]) # width(s) THEN ShapeError ELSE NoError

\* np.zeros(shape=(1, w))
zeros(w) == << [c \in 1..w |-> 0] >>

\* "<name>_lag<L>"
lag_name(name, lag) == name \o "_lag" \o ToString(lag)

-----------------------------------------------------------------------------
(* Lag-Feature Builder                                                     *)

NaN == [nan |-> TRUE, v |-> 0]
Cell(x) == [nan |-> FALSE, v |-> x]

\* mutant: shifts by one row less than asked
shift_one_less(v, lag) ==
    [j \in 1..Len(v) |-> IF j - lag + 1 >= 1 /\ j - lag + 1 <= Len(v) THEN v[j - lag + 1] ELSE NaN]

\* pandas Series.shift(lag): the value lag rows earlier, NaN where there is none
shift(v, lag) ==
    [j \in 1..Len(v) |-> IF j - lag >= 1 /\ j - lag <= Len(v) THEN v[j - lag] ELSE NaN]

\* the distinct lags in order of first occurrence: assigning an existing
\* column name overwrites that column in place
RECURSIVE lag_columns(_)
lag_columns(lags) ==
    IF lags = <<>> THEN <<>>
    ELSE LET init == lag_columns(SubSeq(lags, 1, Len(lags) - 1))
             l    == lags[Len(lags)]
         IN  IF InSeq(l, init) THEN init ELSE Append(init, l)

\* _create_lagged_data: one column per lag, rows with a NaN dropped, the
\* original column dropped
create_lagged_data(series, lags) ==
    LET name == series.cols[1]
        v    == [j \in 1..Len(series.rows) |-> Cell(series.rows[j][1])]
        ls   == lag_columns(lags)
        sh   == [c \in 1..Len(ls) |-> shift(v, ls[c])]
        keep == SelectSeq([j \in 1..Len(v) |-> j],
                          LAMBDA j : \A c \in 1..Len(ls) : ~sh[c][j].nan)
    IN  [times |-> [r \in 1..Len(keep) |-> series.times[keep[r]]],
         cols  |-> [c \in 1..Len(ls) |-> lag_name(name, ls[c])],
         rows  |-> [r \in 1..Len(keep) |-> [c \in 1..Len(ls) |-> sh[c][keep[r]].v]]]

\* position of time t in a frame's index (0 when absent)
RowAt(f, t) == IF \E r \in 1..Len(f.times) : f.times[r] = t
               THEN CHOOSE r \in 1..Len(f.times) : f.times[r] = t
               ELSE 0

RECURSIVE concat_row(_, _)
concat_row(frames, t) ==
    IF frames = <<>> THEN <<>>
    ELSE frames[1].rows[RowAt(frames[1], t)] \o concat_row(Tail(frames), t)

\* mutant: the frames' columns are named in reverse frame order
RECURSIVE concat_cols_reversed(_)
concat_cols_reversed(frames) ==
    IF frames = <<>> THEN <<>>
    ELSE concat_cols_reversed(Tail(frames)) \o frames[1].cols

RECURSIVE concat_cols(_)
concat_cols(frames) ==
    IF frames = <<>> THEN <<>> ELSE frames[1].cols \o concat_cols(Tail(frames))

RECURSIVE SortedSeq(_)
SortedSeq(S) ==
    IF S = {} THEN <<>>
    ELSE LET m == CHOOSE x \in S : \A y \in S : x <= y
         IN  <<m>> \o SortedSeq(S \ {m})

\* pd.concat(frames, axis=1).dropna(): the outer join is indexed by the sorted
\* union of the frames' time stamps and leaves NaN where a frame lacks one;
\* dropna removes those rows
concat_dropna(frames) ==
    LET all  == SortedSeq(UNION {{frames[k].times[r] : r \in 1..Len(frames[k].times)} :
                                 k \in 1..Len(frames)})
        keep == SelectSeq(all, LAMBDA t : \A k \in 1..Len(frames) : RowAt(frames[k], t) > 0)
    IN  [times |-> keep,
         cols  |-> concat_cols(frames),
         rows  |-> [r \in 1..Len(keep) |-> concat_row(frames, keep[r])]]

EmptyFrame == [times |-> <<>>, cols |-> <<>>, rows |-> <<>>]

\* _create_training_data: the lagged target columns, then the lagged columns
\* of every exogenous column, joined on the time index
create_training_data(series, exog, self_lags, self_lags_exog) ==
    IF width(series) > 1
    THEN [err |-> ConfigurationError, x |-> EmptyFrame]
    ELSE IF ~IsNone(self_lags_exog) /\ ~exog.some
    THEN [err |-> AttributeError, x |-> EmptyFrame]
    ELSE LET t_part == IF ~IsNone(self_lags)
                       THEN << create_lagged_data(series, self_lags.list) >>
                       ELSE <<>>
             e_part == IF ~IsNone(self_lags_exog)
                       THEN [c \in 1..width(exog.v) |->
                               create_lagged_data(
                                   select_columns(exog.v, << exog.v.cols[c] >>),
                                   self_lags_exog.list)]
                       ELSE <<>>
         IN  [err |-> NoError, x |-> concat_dropna(t_part \o e_part)]

\* series[time_index] fails when a time stamp is not in the series' index
getitem_error(series, times) ==
    IF \E r \in 1..Len(times) : RowAt(series, times[r]) = 0 THEN KeyError ELSE NoError

\* series[time_index]: the rows of series at the given time stamps
rows_at(series, times) ==
    [r \in 1..Len(times) |-> series.rows[RowAt(series, times[r])]]

-----------------------------------------------------------------------------
(* The estimator collaborator: a deterministic estimator.  Its fitted       *)
(* parameter is a function of the training data and its prediction a       *)
(* function of that parameter and of the feature row (a weighted sum of    *)
(* the row's entries, kept in a bounded range).                            *)

\* model.fit(X, y): the fitted parameter
estimator_fit(X, y) == 1 + (SeqSum(y) % 2)

\* one row's prediction
predict_row(coef, row) == 100 + ((coef * SeqSum([c \in 1..Len(row) |-> c * row[c]])) % 89)

\* model.predict(X): one value per row, as a 1-d array, or as a 2-d array of
\* one-element rows for an estimator of the second shape
estimator_predict(m, X) ==
    [r \in 1..Len(X.rows) |->
        IF m.kind = "estimator2d" THEN << predict_row(m.coef, X.rows[r]) >>
        ELSE predict_row(m.coef, X.rows[r])]

\* forecast = forecast[0] if isinstance(forecast[0], np.ndarray) else forecast
unwrap_forecast(m, forecast) ==
    IF m.kind = "estimator2d" THEN forecast[1] ELSE forecast

-----------------------------------------------------------------------------
(* State.                                                                  *)

VARIABLES
    pc,                    \* "new", "ready", "predict" (inside the loop),
                           \* "returned" (a call has ended), "dead"
    init_args,             \* the constructor's arguments, while its call lasts
    lags, lags_exog, max_lag, model,          \* Model Configuration
    fit_called,            \* self._fit_called
    training_series,       \* self.training_series (set by the base class)
    exog_columns,          \* self.exog_columns
    nr_exog,               \* self.nr_exog
    target_column,         \* self.target_column
    self_prediction_data,  \* self.prediction_data
    arg_series,            \* fit's argument series, while the call lasts
    n, exog, i,            \* predict's n, fit's or predict's exog, the loop index
    prediction_data,       \* predict's local rolling window
    dummy_row,             \* predict's local placeholder row
    forecasts,             \* predict's local list of forecasts
    result,                \* the forecast series predict returned
    outcome,               \* what the last call did: [op, err, refit]; refit: a
                           \* successful fit of a fitted model on other data than
                           \* the fit call before it
    est_fit_calls,         \* estimator fit invocations during the last fit call
    training_x,            \* fit's local training_x (the builder's table), once built
    training_y,            \* the label vector handed to the estimator's fit
    est_predict_calls,     \* estimator predict invocations during the last predict call
    X_log,                 \* the feature tables handed to the estimator's predict
    fit_history,           \* "none", "failed" (no fit succeeded yet), "ok"
    last_fit               \* arguments and success of the most recent fit call, and
                           \* the columns of the table it gave the estimator

config == <<lags, lags_exog, max_lag>>
fitted_state == <<target_column, exog_columns, nr_exog, self_prediction_data, fit_called>>
vars == <<pc, init_args, arg_series, lags, lags_exog, max_lag, model, fit_called, training_series,
          exog_columns, nr_exog, target_column, self_prediction_data,
          n, exog, i, prediction_data, dummy_row, forecasts, result, outcome,
          est_fit_calls, training_x, training_y, est_predict_calls, X_log, fit_history,
          last_fit>>

NoColumn == [some |-> FALSE, v |-> ""]
NoFrame == [some |-> FALSE, v |-> EmptyFrame]
NoResult == [some |-> FALSE, start |-> 0, values |-> <<>>]
NoArgs == [lags |-> NoneV, lags_exog |-> NoneV, model |-> "None"]
NoFit == [ok |-> FALSE, series |-> EmptyFrame, exog |-> NoFrame, cols |-> <<>>]

-----------------------------------------------------------------------------
(* Inputs.                                                                 *)

\* length of the shortest training series: longer than any configurable lag,
\* so that the training table has at least one row
TrainLen == MaxK + 1

LagLists == { <<>>, <<1>>, <<MaxK, 1>>, <<0>>, <<0, MaxK>>, <<-1>> }

LagArgs == {NoneV, BoolV(TRUE), BoolV(FALSE)}
             \cup {IntV(k) : k \in -1..MaxK}
             \cup {ListV(l) : l \in LagLists}

ModelArgs == {"None", "estimator", "estimator2d", "no_fit", "no_predict"}

\* a series whose value in column c at position j is base + 10*c + j
Ramp(start, cols, len, base) ==
    SeriesOf(start, cols, [j \in 1..len |-> [c \in 1..Len(cols) |-> base + 10 * c + j]])

\* two univariate series of different length and values, one whose column
\* carries the name of an exogenous column, and a multivariate one
TargetInputs == { Ramp(1, <<"y">>, TrainLen, 0), Ramp(1, <<"y">>, TrainLen + 1, 4),
                  Ramp(1, <<"a">>, TrainLen, 0),
                  Ramp(1, <<"y", "z">>, TrainLen, 0) }

ExogColumns == { <<"a">>, <<"a", "b">> }

\* the exogenous series given to fit has the time index of the target series,
\* or extends one step beyond it
FitExogInputs(a_series) ==
    {NoFrame} \cup { Some(Ramp(1, cs, Len(a_series.rows), 20)) : cs \in ExogColumns }
              \cup { Some(Ramp(1, <<"a">>, Len(a_series.rows) + 1, 20)) }

\* predict takes any exogenous series, whatever was given to fit: of the
\* same columns, of another width, or of the same width under other names.
\* The series start one or two steps after the shortest training series' end
\* and have MaxN rows; one has the columns of <<"a", "b">> in the other
\* order, one has a single row.
PredictExogInputs ==
    {NoFrame}
    \cup { Some(Ramp(st, cs, MaxN, 50)) :
             st \in (TrainLen + 1)..(TrainLen + 2), cs \in ExogColumns }
    \cup { Some(Ramp(TrainLen + 1, <<"b", "a">>, MaxN, 50)),
           Some(Ramp(TrainLen + 1, <<"a">>, 1, 50)) }

-----------------------------------------------------------------------------
(* RegressionModel.fit                                                     *)

\* ExtendedForecastingModel.fit: the base class records the training series
base_fit(series, a_exog) == Some(series)

\* DataFrame.rename(mapping) without axis or columns= maps the index labels;
\* no time stamp equals a column name, so the frame comes back unchanged
rename_target(series, target) == series

\* mutant: only the first of the two presence checks
presence_error_one_sided(a_exog) ==
    IF a_exog.some /\ IsNone(lags_exog) THEN ConfigurationError ELSE NoError

\* lines 123-128: the presence of exog must match the configured lags_exog
presence_error(a_exog) ==
    IF a_exog.some /\ IsNone(lags_exog) THEN ConfigurationError
    ELSE IF ~a_exog.some /\ ~IsNone(lags_exog) THEN ConfigurationError
    ELSE NoError

\* mutant: the flag is set although fit raised
fit_called_always(err, old) == TRUE

\* self._fit_called after fit: line 155 runs only when nothing raised before
fit_called_on_exit(err, old) == IF err = NoError THEN TRUE ELSE old

\* mutant: a seed window already stored is kept
seed_window_kept(series, a_exog, self_max_lag) ==
    IF self_prediction_data.some THEN self_prediction_data.v
    ELSE IF self_max_lag = 0
    THEN [times |-> <<>>, cols |-> stack(series, a_exog.v).cols, rows |-> <<>>]
    ELSE IF a_exog.some
    THEN last_rows(stack(series, a_exog.v), self_max_lag)
    ELSE last_rows(series, self_max_lag)

\* self.prediction_data: the seed window
seed_window(series, a_exog, self_max_lag) ==
    IF self_max_lag = 0
    THEN [times |-> <<>>, cols |-> stack(series, a_exog.v).cols, rows |-> <<>>]
    ELSE IF a_exog.some
    THEN last_rows(stack(series, a_exog.v), self_max_lag)
    ELSE last_rows(series, self_max_lag)

\* fit(series, exog): the error raised (or none) and the attributes of self
\* when the call ends.  est_raises: the estimator's fit raises.
fit(a_series, a_exog, est_raises) ==
    LET old == [err |-> NoError,
                training_series |-> training_series,
                exog_columns |-> exog_columns, nr_exog |-> nr_exog,
                target_column |-> target_column,
                self_prediction_data |-> self_prediction_data,
                model |-> model, est_fit_calls |-> 0,
                training_x |-> NoFrame, training_y |-> <<>>]
        s1  == [old EXCEPT !.training_series = base_fit(a_series, a_exog)]
        cols == IF a_exog.some THEN Some(a_exog.v.cols) ELSE Nothing
        s2  == [s1 EXCEPT !.exog_columns = cols,
                          !.nr_exog = IF a_exog.some
                                      THEN width(a_exog.v) * Len(lags_exog.list) ELSE 0]
        series == IF cols.some /\ InSeq(a_series.cols[1], cols.v)
                  THEN rename_target(a_series, a_series.cols[1])
                  ELSE a_series
        s3  == [s2 EXCEPT !.target_column = Some(series.cols[1])]
        tx  == create_training_data(series, a_exog, lags, lags_exog)
        sx  == [s3 EXCEPT !.training_x = Some(tx.x)]
        ty  == rows_at(series, tx.x.times)
        y   == [r \in 1..Len(ty) |-> ty[r][1]]
        s4  == [sx EXCEPT !.est_fit_calls = 1, !.training_y = y]
        \* the estimator is trained in place
        sm  == [s4 EXCEPT !.model = [model EXCEPT !.coef = estimator_fit(tx.x, y)]]
        s5  == [sm EXCEPT !.self_prediction_data = Some(seed_window(series, a_exog, max_lag))]
    IN  IF presence_error(a_exog) # NoError THEN [s1 EXCEPT !.err = presence_error(a_exog)]
        ELSE IF tx.err # NoError THEN [s3 EXCEPT !.err = tx.err]
        ELSE IF getitem_error(series, tx.x.times) # NoError
        THEN [sx EXCEPT !.err = getitem_error(series, tx.x.times)]
        ELSE IF est_raises THEN [s4 EXCEPT !.err = EstimatorError]
        ELSE IF a_exog.some /\ stack_error(series, a_exog.v) # NoError
        THEN [sm EXCEPT !.err = stack_error(series, a_exog.v)]
        ELSE s5

-----------------------------------------------------------------------------
(* Actions.                                                                *)

Init ==
    /\ pc = "new"
    /\ init_args = NoArgs /\ arg_series = NoFrame
    /\ lags = NoneV /\ lags_exog = NoneV /\ max_lag = 0
    /\ model = [kind |-> "None", coef |-> 0]
    /\ fit_called = FALSE
    /\ training_series = NoFrame
    /\ exog_columns = Nothing /\ nr_exog = 0 /\ target_column = NoColumn
    /\ self_prediction_data = NoFrame
    /\ n = 0 /\ exog = NoFrame /\ i = 0
    /\ prediction_data = NoFrame /\ dummy_row = <<>> /\ forecasts = <<>>
    /\ result = NoResult
    /\ outcome = [op |-> "none", err |-> NoError, refit |-> FALSE]
    /\ est_fit_calls = 0 /\ est_predict_calls = 0 /\ X_log = <<>>
    /\ training_x = NoFrame /\ training_y = <<>>
    /\ fit_history = "none" /\ last_fit = NoFit

\* RegressionModel(lags, lags_exog, model)
Construct ==
    /\ pc = "new"
    /\ \E a_lags \in LagArgs, a_lags_exog \in LagArgs, a_model \in ModelArgs :
         \E r \in {RegressionModel_init(a_lags, a_lags_exog, a_model)} :
             /\ pc' = IF r.err = NoError THEN "returned" ELSE "dead"
             /\ init_args' = [lags |-> a_lags, lags_exog |-> a_lags_exog, model |-> a_model]
             /\ lags' = r.lags /\ lags_exog' = r.lags_exog /\ max_lag' = r.max_lag
             /\ model' = [kind |-> r.model, coef |-> 0]
             /\ outcome' = [op |-> "init", err |-> r.err, refit |-> FALSE]
    /\ UNCHANGED <<arg_series, fit_called, training_series, exog_columns, nr_exog, target_column,
                   self_prediction_data, n, exog, i, prediction_data, dummy_row,
                   forecasts, result, est_fit_calls, training_x, training_y,
                   est_predict_calls, X_log, fit_history, last_fit>>

\* model.fit(series, exog)
Fit ==
    /\ pc = "ready"
    /\ \E a_series \in TargetInputs, est_raises \in BOOLEAN :
       \E a_exog \in FitExogInputs(a_series) :
         \E r \in {fit(a_series, a_exog, est_raises)} :
             /\ training_series' = r.training_series
             /\ exog_columns' = r.exog_columns
             /\ nr_exog' = r.nr_exog
             /\ target_column' = r.target_column
             /\ self_prediction_data' = r.self_prediction_data
             /\ model' = r.model
             /\ fit_called' = fit_called_on_exit(r.err, fit_called)
             /\ est_fit_calls' = r.est_fit_calls
             /\ training_x' = r.training_x /\ training_y' = r.training_y
             /\ outcome' = [op |-> "fit", err |-> r.err,
                             refit |-> /\ fit_called /\ r.err = NoError
                                       /\ ~(/\ last_fit.ok /\ last_fit.series = a_series
                                             /\ last_fit.exog = a_exog)]
             /\ fit_history' = IF r.err = NoError THEN "ok"
                               ELSE IF fit_history = "ok" THEN "ok" ELSE "failed"
             /\ last_fit' = IF r.err = NoError
                            THEN [ok |-> TRUE, series |-> a_series, exog |-> a_exog,
                                  cols |-> r.training_x.v.cols]
                            ELSE NoFit
             /\ arg_series' = Some(a_series) /\ exog' = a_exog
    /\ pc' = "returned"
    /\ UNCHANGED <<init_args, config, n, i, prediction_data, dummy_row, forecasts,
                   result, est_predict_calls, X_log>>

-----------------------------------------------------------------------------
(* RegressionModel.predict                                                 *)

\* ExtendedForecastingModel.predict: the base class refuses an unfitted model
base_predict(a_n, a_exog) == IF fit_called THEN NoError ELSE NotFittedError

\* mutant: the frequency step is not added
required_start_no_step == end_time(training_series.v)

\* required_start = self.training_series.end_time() + self.training_series.freq()
required_start == end_time(training_series.v) + freq

\* the statements of predict before its loop: the error raised (or none) and
\* the locals on entry to the loop
predict_entry(a_n, a_exog) ==
    LET b   == base_predict(a_n, a_exog)
        w   == width(self_prediction_data.v)
        pd0 == IF max_lag # 0
               THEN Some(append_values(self_prediction_data.v, zeros(w)))
               ELSE NoFrame
        dr  == IF max_lag # 0 THEN zeros(w) ELSE <<>>
        ok(e) == [err |-> e, prediction_data |-> pd0, dummy_row |-> dr,
                  forecasts |-> [k \in 1..a_n |-> k - 1]]
        none(e) == [err |-> e, prediction_data |-> NoFrame, dummy_row |-> <<>>,
                    forecasts |-> <<>>]
    IN  IF b # NoError THEN none(b)
        \* self.prediction_data exists only once a fit has come to line 149
        ELSE IF max_lag # 0 /\ ~self_prediction_data.some THEN none(AttributeError)
        ELSE IF a_exog.some /\ start_time(a_exog.v) # required_start
        THEN ok(ConfigurationError)
        ELSE ok(NoError)

\* exog.iloc[i, :].values: the error it raises, if any
iloc_error(a_exog, k) ==
    IF ~a_exog.some THEN AttributeError
    ELSE IF k >= Len(a_exog.v.rows) THEN IndexError
    ELSE NoError

\* mutant: the placeholder is never overwritten with the step's exogenous values
uses_lag0_never == FALSE

\* whether exogenous lag 0 is configured
uses_lag0 == ~IsNone(lags_exog) /\ InSeq(0, lags_exog.list)

\* mutant: every step takes the exogenous values of the first step
fill_placeholder_stale(pd, k) ==
    LET append_row == << <<0>> \o exog.v.rows[1] >>
    IN  IF max_lag = 0
        THEN Some([times |-> << exog.v.times[k + 1] >>,
                   cols  |-> self_prediction_data.v.cols,
                   rows  |-> append_row])
        ELSE Some(append_values(drop_last(pd.v), append_row))

\* lines 258-267: the current step's exogenous values overwrite the placeholder
fill_placeholder(pd, k) ==
    LET append_row == << <<0>> \o exog.v.rows[k + 1] >>
    IN  IF max_lag = 0
        THEN Some([times |-> << exog.v.times[k + 1] >>,
                   cols  |-> self_prediction_data.v.cols,
                   rows  |-> append_row])
        ELSE Some(append_values(drop_last(pd.v), append_row))

\* lines 270-272: the single-row feature table of the step
forecasting_data(pd) ==
    IF select_error(pd.v, << target_column.v >>) # NoError
    THEN [err |-> KeyError, x |-> EmptyFrame]
    ELSE IF exog_columns.some /\ select_error(pd.v, exog_columns.v) # NoError
    THEN [err |-> KeyError, x |-> EmptyFrame]
    ELSE create_training_data(
             select_columns(pd.v, << target_column.v >>),
             IF exog_columns.some THEN Some(select_columns(pd.v, exog_columns.v)) ELSE NoFrame,
             lags, lags_exog)

\* mutant: the placeholder row is not removed before the forecast is appended
roll_window_keeps_dummy(pd, value, k) ==
    LET append_row == IF exog_columns.some
                      THEN << <<value>> \o exog.v.rows[k + 1] >>
                      ELSE << <<value>> >>
    IN  Some(drop_first(drop_first(
            append_values(append_values(pd.v, append_row), dummy_row))))

\* mutant: the oldest row is not dropped
roll_window_grows(pd, value, k) ==
    LET append_row == IF exog_columns.some
                      THEN << <<value>> \o exog.v.rows[k + 1] >>
                      ELSE << <<value>> >>
    IN  Some(append_values(append_values(drop_last(pd.v), append_row), dummy_row))

\* lines 277-281: the forecast replaces the placeholder, a new placeholder is
\* appended and the oldest row is dropped
roll_window(pd, value, k) ==
    LET append_row == IF exog_columns.some
                      THEN << <<value>> \o exog.v.rows[k + 1] >>
                      ELSE << <<value>> >>
    IN  Some(drop_first(append_values(append_values(drop_last(pd.v), append_row),
                                      dummy_row)))

\* mutant: the loop stores its rolling window in the attribute
seed_overwritten(pd) == pd

\* self.prediction_data after an iteration: the loop assigns its local
\* prediction_data only, the attribute keeps the seed window
seed_after_step(pd) == self_prediction_data

\* forecast[0] of the (unwrapped) estimator output
first_forecast(X) == unwrap_forecast(model, estimator_predict(model, X))[1]

\* mutant: one iteration too many
loop_continues_once_more == i <= n

\* whether the loop runs another iteration: for i in range(n)
loop_continues == i < n

\* one iteration of the loop: the error raised (or none), whether the
\* estimator's predict was invoked, and the locals afterwards
predict_step ==
    LET stay(e, c, X) == [err |-> e, called |-> c, X |-> X,
                          prediction_data |-> prediction_data, forecasts |-> forecasts]
        e0  == IF uses_lag0 THEN iloc_error(exog, i) ELSE NoError
        e1  == IF e0 # NoError THEN e0
               ELSE IF uses_lag0 /\ max_lag = 0 /\ ~self_prediction_data.some
               THEN AttributeError
               ELSE NoError
        \* the row <<0, exog values>> must have the window's width
        e1w == append_error(IF max_lag = 0 THEN self_prediction_data.v ELSE prediction_data.v,
                            << <<0>> \o exog.v.rows[i + 1] >>)
        pd1 == IF uses_lag0 THEN fill_placeholder(prediction_data, i) ELSE prediction_data
        fd  == forecasting_data(pd1)
        f   == first_forecast(fd.x)
        e2  == IF max_lag > 0 /\ exog_columns.some THEN iloc_error(exog, i) ELSE NoError
        e2w == IF max_lag > 0
               THEN append_error(pd1.v, IF exog_columns.some
                                        THEN << <<f>> \o exog.v.rows[i + 1] >>
                                        ELSE << <<f>> >>)
               ELSE NoError
        pd2 == IF max_lag > 0 THEN roll_window(pd1, f, i) ELSE pd1
    IN  IF e1 # NoError THEN stay(e1, FALSE, EmptyFrame)
        ELSE IF uses_lag0 /\ e1w # NoError THEN stay(e1w, FALSE, EmptyFrame)
        ELSE IF fd.err # NoError THEN stay(fd.err, FALSE, EmptyFrame)
        ELSE IF Len(fd.x.rows) = 0 THEN stay(EstimatorError, TRUE, fd.x)
        ELSE IF e2 # NoError THEN stay(e2, TRUE, fd.x)
        ELSE IF e2w # NoError THEN stay(e2w, TRUE, fd.x)
        ELSE [err |-> NoError, called |-> TRUE, X |-> fd.x,
              prediction_data |-> pd2,
              forecasts |-> [forecasts EXCEPT ![i + 1] = f]]

\* _build_forecast_series(forecasts): the values on the time stamps that
\* follow the training series
build_forecast_series(values) ==
    [some |-> TRUE, start |-> required_start, values |-> values]

\* predict(n, exog), up to the loop
PredictStart ==
    /\ pc = "ready"
    /\ \E a_n \in 0..MaxN, a_exog \in PredictExogInputs :
         /\ \E r \in {predict_entry(a_n, a_exog)} :
              /\ pc' = IF r.err = NoError THEN "predict" ELSE "returned"
              /\ n' = a_n /\ exog' = a_exog /\ i' = 0
              /\ prediction_data' = r.prediction_data
              /\ dummy_row' = r.dummy_row
              /\ forecasts' = r.forecasts
              /\ outcome' = [op |-> "predict", err |-> r.err, refit |-> FALSE]
    /\ result' = NoResult /\ est_predict_calls' = 0 /\ X_log' = <<>>
    /\ UNCHANGED <<init_args, config, model, fit_called, training_series, exog_columns, nr_exog,
                   target_column, self_prediction_data, arg_series, est_fit_calls,
                   training_x, training_y, fit_history, last_fit>>

\* one iteration of predict's loop
PredictStep ==
    /\ pc = "predict"
    /\ loop_continues
    /\ \E r \in {predict_step} :
         /\ pc' = IF r.err = NoError THEN "predict" ELSE "returned"
         /\ i' = IF r.err = NoError THEN i + 1 ELSE i
         /\ prediction_data' = r.prediction_data
         /\ forecasts' = r.forecasts
         /\ outcome' = [op |-> "predict", err |-> r.err, refit |-> FALSE]
         /\ est_predict_calls' = IF r.called THEN est_predict_calls + 1 ELSE est_predict_calls
         /\ X_log' = IF r.called THEN Append(X_log, r.X) ELSE X_log
         /\ self_prediction_data' = seed_after_step(r.prediction_data)
    /\ UNCHANGED <<init_args, config, model, fit_called, training_series, exog_columns, nr_exog,
                   target_column, arg_series, n, exog, dummy_row,
                   result, est_fit_calls, training_x, training_y, fit_history, last_fit>>

\* predict returns the forecast series
PredictReturn ==
    /\ pc = "predict"
    /\ ~loop_continues
    /\ pc' = "returned"
    /\ result' = build_forecast_series(forecasts)
    /\ UNCHANGED <<init_args, config, model, fit_called, training_series, exog_columns, nr_exog,
                   target_column, self_prediction_data, arg_series, n, exog, i,
                   prediction_data, dummy_row, forecasts, outcome, est_fit_calls,
                   training_x, training_y, est_predict_calls, X_log, fit_history, last_fit>>

\* The call has ended: the caller holds the result or the exception, and the
\* locals of the call are gone.
CallReturns ==
    /\ pc = "returned"
    /\ pc' = "ready"
    /\ init_args' = NoArgs /\ arg_series' = NoFrame
    /\ n' = 0 /\ exog' = NoFrame /\ i' = 0
    /\ prediction_data' = NoFrame /\ dummy_row' = <<>> /\ forecasts' = <<>>
    /\ result' = NoResult
    /\ outcome' = [op |-> "none", err |-> NoError, refit |-> FALSE]
    /\ est_fit_calls' = 0 /\ est_predict_calls' = 0 /\ X_log' = <<>>
    /\ training_x' = NoFrame /\ training_y' = <<>>
    /\ UNCHANGED <<config, model, fit_called, training_series, exog_columns, nr_exog,
                   target_column, self_prediction_data, fit_history, last_fit>>

Next == Construct \/ Fit \/ PredictStart \/ PredictStep \/ PredictReturn \/ CallReturns

Spec == Init /\ [][Next]_vars

-----------------------------------------------------------------------------
(* Properties.                                                             *)

\* the training data of the most recent fit call, which succeeded
TrainT == Len(last_fit.series.rows)
TrainingEnd == training_series.v.times[Len(training_series.v.times)]
Aligned == exog.v.times[1] = TrainingEnd + 1
DistinctLags(l) == Cardinality({l.list[k] : k \in DOMAIN l.list})

HasCol(X, name) == \E c \in 1..Len(X.cols) : X.cols[c] = name
ColOf(X, name) == CHOOSE c \in 1..Len(X.cols) : X.cols[c] = name

\* what the claim says stands at target lag L in the feature row of step s
TargetAt(s, L) ==
    IF s - L >= 1 THEN forecasts[s - L] ELSE last_fit.series.rows[TrainT + s - L][1]

\* what the claim says stands at lag L of exogenous column c in the row of step s
ExogAt(c, s, L) ==
    IF s - L >= 1 THEN exog.v.rows[s - L][c] ELSE last_fit.exog.v.rows[TrainT + s - L][c]

\* C1: after a successful fit on a series of length T, the feature table of
\* forecast step s handed to the estimator is a single row whose entry for
\* target lag L is forecast s-L when s-L >= 1 and else the training target at
\* position T+s-L, whose entry for lag L of every exogenous column is the
\* predict-time exogenous value of step s-L when s-L >= 1 and else the training
\* exogenous value at position T+s-L, which has no other entries, and the
\* s-th recorded forecast is the estimator's output on that row.
C1_FeatureRows ==
    (outcome.op = "predict" /\ last_fit.ok) =>
        \A s \in 1..Len(X_log) :
            LET X == X_log[s]
                y == last_fit.series.cols[1]
            IN  /\ Len(X.rows) = 1
                /\ Len(X.cols) =
                     (IF IsNone(lags) THEN 0 ELSE DistinctLags(lags))
                     + (IF IsNone(lags_exog) THEN 0
                        ELSE width(last_fit.exog.v) * DistinctLags(lags_exog))
                /\ ~IsNone(lags) =>
                     \A k \in DOMAIN lags.list :
                        /\ HasCol(X, lag_name(y, lags.list[k]))
                        /\ X.rows[1][ColOf(X, lag_name(y, lags.list[k]))]
                             = TargetAt(s, lags.list[k])
                /\ ~IsNone(lags_exog) =>
                     \A c \in 1..width(last_fit.exog.v), k \in DOMAIN lags_exog.list :
                        /\ HasCol(X, lag_name(last_fit.exog.v.cols[c], lags_exog.list[k]))
                        /\ X.rows[1][ColOf(X, lag_name(last_fit.exog.v.cols[c],
                                                       lags_exog.list[k]))]
                             = ExogAt(c, s, lags_exog.list[k])
                /\ s <= i => forecasts[s] = predict_row(model.coef, X.rows[1])

\* C1 witness: predict(MaxN) returned for a model with target lags and with
\* exogenous lags 0 and MaxK over two exogenous columns
C1_Witness ==
    /\ pc = "returned" /\ result.some /\ last_fit.ok
    /\ n = MaxN /\ Len(X_log) = MaxN
    /\ ~IsNone(lags) /\ uses_lag0 /\ max_lag = MaxK
    /\ width(exog.v) = 2

\* the target column of the most recent fit carries the name of one of its
\* exogenous columns
NameCollision ==
    last_fit.exog.some /\ InSeq(last_fit.series.cols[1], last_fit.exog.v.cols)

\* a predict call made after a successful fit with the exogenous series the
\* configuration needs: aligned, at least n rows long and of as many columns
\* as the one given to fit; the training columns have distinct names (C19 is
\* about equal names)
ValidPredictCall ==
    /\ last_fit.ok /\ ~NameCollision
    /\ exog.some => Aligned
    /\ ~IsNone(lags_exog) => (/\ exog.some /\ Len(exog.v.rows) >= n
                              /\ width(exog.v) = width(last_fit.exog.v))

\* C2: after a successful fit, a predict(n) call that returns has recorded
\* exactly n forecasts with exactly n invocations of the estimator's predict
\* (none for n = 0), and a call with valid arguments does return.
C2_ForecastCount ==
    (pc = "returned" /\ outcome.op = "predict") =>
        /\ result.some =>
             (Len(result.values) = n /\ i = n /\ est_predict_calls = n)
        /\ ValidPredictCall => (result.some /\ outcome.err = NoError)

\* C2 witness: predict(0) returned an empty forecast without invoking the estimator
C2_Witness ==
    /\ pc = "returned" /\ outcome.op = "predict" /\ last_fit.ok
    /\ n = 0 /\ result.some /\ result.values = <<>> /\ est_predict_calls = 0

\* C3: a predict call made while no fit has succeeded yet ends at once with
\* NotFittedError, without invoking the estimator and without a forecast.
C3_NotFitted ==
    (outcome.op = "predict" /\ fit_history # "ok") =>
        /\ pc = "returned"
        /\ outcome.err = NotFittedError
        /\ est_predict_calls = 0
        /\ ~result.some

\* C3 witness: predict raised NotFittedError after a first fit that failed
C3_Witness ==
    /\ pc = "returned" /\ outcome.op = "predict"
    /\ fit_history = "failed" /\ outcome.err = NotFittedError

\* C4: a fit call whose exog argument is present while lags_exog is unset, or
\* absent while lags_exog is set, raises ConfigurationError and has not
\* invoked the estimator's fit.
C4_PresenceMismatch ==
    (pc = "returned" /\ outcome.op = "fit" /\ (exog.some # ~IsNone(lags_exog))) =>
        (outcome.err = ConfigurationError /\ est_fit_calls = 0)

\* C4 witness: fit was given exog by a model built without lags_exog
C4_Witness ==
    /\ pc = "returned" /\ outcome.op = "fit"
    /\ exog.some /\ IsNone(lags_exog)
    /\ outcome.err = ConfigurationError

\* C5: on a fitted model, a predict call whose exog does not start one step
\* after the end of the training series raises ConfigurationError before the
\* loop: no forecast step runs and the estimator is not invoked.
C5_Misaligned ==
    (outcome.op = "predict" /\ fit_called /\ exog.some /\ ~Aligned) =>
        /\ pc = "returned"
        /\ outcome.err = ConfigurationError
        /\ est_predict_calls = 0 /\ i = 0

\* C5 witness: predict refused an exog series starting two steps after the
\* training series' end
C5_Witness ==
    /\ pc = "returned" /\ outcome.op = "predict" /\ fit_called
    /\ exog.some /\ exog.v.times[1] = TrainingEnd + 2
    /\ outcome.err = ConfigurationError

\* C6 (as claimed): with exogenous lags configured, predict(n) given an
\* aligned exog of fewer than n rows ends with ConfigurationError and has not
\* invoked the estimator.
C6_ShortExogRefused ==
    (/\ pc = "returned" /\ outcome.op = "predict" /\ last_fit.ok
     /\ ~IsNone(lags_exog) /\ exog.some /\ Aligned /\ Len(exog.v.rows) < n) =>
        (outcome.err = ConfigurationError /\ est_predict_calls = 0)

\* C7 (as claimed): with exogenous lags configured, predict(n), n >= 1, called
\* without exog ends with ConfigurationError and has not invoked the estimator.
C7_MissingExogRefused ==
    (/\ pc = "returned" /\ outcome.op = "predict" /\ last_fit.ok
     /\ ~IsNone(lags_exog) /\ ~exog.some /\ n >= 1) =>
        (outcome.err = ConfigurationError /\ est_predict_calls = 0)

\* C8 (as claimed): a fit call that raises leaves target_column, exog_columns,
\* nr_exog, the seed window and the fitted flag as they were.
C8_FailedFitAtomic ==
    [][(pc = "ready" /\ outcome'.op = "fit" /\ outcome'.err # NoError)
          => UNCHANGED fitted_state]_vars

\* C9: predict never changes the Fitted State: while the most recent fit is a
\* successful one, through any number of predict calls the seed window is the
\* one that fit stored (as are the column identifiers, the fitted flag and
\* the estimator's parameter), and every predict call enters its loop with
\* that seed window followed by one zero placeholder row.
C9_SeedUnchanged ==
    last_fit.ok =>
        /\ self_prediction_data = Some(seed_window(last_fit.series, last_fit.exog, max_lag))
        /\ fit_called
        /\ target_column = Some(last_fit.series.cols[1])
        /\ exog_columns = (IF last_fit.exog.some THEN Some(last_fit.exog.v.cols) ELSE Nothing)
        /\ training_series = Some(last_fit.series)
        /\ (pc = "predict" /\ i = 0 /\ max_lag # 0) =>
              prediction_data =
                Some(append_values(seed_window(last_fit.series, last_fit.exog, max_lag),
                                   zeros(width(self_prediction_data.v))))

\* C9 witness: a predict call of several steps has returned and the seed
\* window is still the last max_lag training rows
C9_Witness ==
    /\ pc = "returned" /\ result.some /\ n >= 2 /\ last_fit.ok /\ max_lag # 0
    /\ self_prediction_data = Some(seed_window(last_fit.series, last_fit.exog, max_lag))
    /\ prediction_data # Some(append_values(self_prediction_data.v, dummy_row))

\* C10: a successful construction turns lags=k and lags_exog=k (k a positive
\* integer) into the list 1..k, lags_exog=True into the target lag list,
\* lags_exog=False into [0], and keeps an explicit list as given.
C10_LagExpansion ==
    (outcome.op = "init" /\ outcome.err = NoError) =>
        /\ init_args.lags.kind = "int" =>
             (/\ IsList(lags) /\ Len(lags.list) = init_args.lags.int
              /\ \A j \in 1..init_args.lags.int : lags.list[j] = j)
        /\ init_args.lags_exog.kind = "int" =>
             (/\ IsList(lags_exog) /\ Len(lags_exog.list) = init_args.lags_exog.int
              /\ \A j \in 1..init_args.lags_exog.int : lags_exog.list[j] = j)
        /\ IsTrue(init_args.lags_exog) => (IsList(lags) /\ lags_exog = lags)
        /\ IsFalse(init_args.lags_exog) => lags_exog = ListV(<<0>>)
        /\ IsList(init_args.lags) => lags = init_args.lags
        /\ IsList(init_args.lags_exog) => lags_exog = init_args.lags_exog

\* C10 witness: RegressionModel(lags=MaxK, lags_exog=True) was constructed
C10_Witness ==
    /\ outcome.op = "init" /\ outcome.err = NoError
    /\ init_args.lags = IntV(MaxK) /\ IsTrue(init_args.lags_exog)
    /\ lags = ListV([j \in 1..MaxK |-> j]) /\ lags_exog = lags

-----------------------------------------------------------------------------
\* the lag arguments the claim calls invalid: both unset, a target lag that
\* is not strictly positive, a negative exogenous lag
InvalidLagArgs ==
    \/ IsNone(init_args.lags) /\ IsNone(init_args.lags_exog)
    \/ init_args.lags.kind = "int" /\ init_args.lags.int <= 0
    \/ IsList(init_args.lags) /\ \E j \in DOMAIN init_args.lags.list : init_args.lags.list[j] <= 0
    \/ init_args.lags_exog.kind = "int" /\ init_args.lags_exog.int < 0
    \/ IsList(init_args.lags_exog)
          /\ \E j \in DOMAIN init_args.lags_exog.list : init_args.lags_exog.list[j] < 0

\* all configured lags of the constructed model
AllLags ==
    (IF IsNone(lags) THEN {} ELSE {lags.list[j] : j \in DOMAIN lags.list})
      \cup (IF IsNone(lags_exog) THEN {} ELSE {lags_exog.list[j] : j \in DOMAIN lags_exog.list})

\* the stored configuration is well formed
ConfigWellFormed ==
    /\ ~IsNone(lags) \/ ~IsNone(lags_exog)
    /\ ~IsNone(lags) => \A j \in DOMAIN lags.list : lags.list[j] >= 1
    /\ ~IsNone(lags_exog) => \A j \in DOMAIN lags_exog.list : lags_exog.list[j] >= 0
    /\ max_lag \in AllLags
    /\ \A l \in AllLags : l <= max_lag

\* C11 (as claimed): a construction whose estimator argument is left unset
\* or is a usable estimator raises ConfigurationError when its lag arguments
\* are invalid, and when it succeeds the stored configuration has a lag set,
\* target lags >= 1, exogenous lags >= 0 and max_lag the largest lag.
C11_LagValidation ==
    (outcome.op = "init" /\ init_args.model \in {"None", "estimator", "estimator2d"}) =>
        /\ InvalidLagArgs => outcome.err = ConfigurationError
        /\ outcome.err = NoError => ConfigWellFormed

\* C12 (as claimed): a construction with valid lag arguments and the
\* estimator left unset succeeds and wraps the default linear regressor.
C12_DefaultEstimator ==
    (outcome.op = "init" /\ init_args.model = "None"
       /\ RegressionModel_init(init_args.lags, init_args.lags_exog, "estimator").err = NoError) =>
        (outcome.err = NoError /\ model.kind = "LinearRegression")

-----------------------------------------------------------------------------
\* the time stamps of a series at which the value L steps earlier exists, for
\* every configured lag L
DefinedTimes(series) ==
    { series.times[j] : j \in { k \in 1..Len(series.times) : \A L \in AllLags : k - L >= 1 } }

\* C13: when fit's target and exogenous series have no missing values and the
\* same N time stamps, the table the Lag-Feature Builder returns has exactly
\* N - max(lags used) rows, at exactly the time stamps where every lagged
\* value is defined, in increasing order; applied to predict's rolling window
\* of max_lag + 1 rows it returns the single row of the step's time stamp.
C13_BuilderRows ==
    /\ (pc = "returned" /\ outcome.op = "fit" /\ training_x.some
          /\ (exog.some => has_same_time_as(arg_series.v, exog.v))) =>
          LET X == training_x.v
              N == Len(arg_series.v.rows)
          IN  /\ Len(X.rows) = N - max_lag
              /\ Len(X.times) = Len(X.rows)
              /\ { X.times[r] : r \in 1..Len(X.times) } = DefinedTimes(arg_series.v)
              /\ \A r \in 1..(Len(X.times) - 1) : X.times[r] < X.times[r + 1]
    /\ (outcome.op = "predict" /\ last_fit.ok) =>
          \A s \in 1..Len(X_log) :
              /\ Len(X_log[s].rows) = 1
              /\ X_log[s].times = << TrainingEnd + s >>

\* C13 witness: the builder kept two of MaxK + 2 rows for lags MaxK and 1 of
\* the target and of two exogenous columns
C13_Witness ==
    /\ pc = "returned" /\ outcome.op = "fit" /\ training_x.some
    /\ exog.some /\ width(exog.v) = 2 /\ has_same_time_as(arg_series.v, exog.v)
    /\ lags = ListV(<<MaxK, 1>>) /\ ~IsNone(lags_exog)
    /\ Len(arg_series.v.rows) = MaxK + 2
    /\ Len(training_x.v.rows) = 2

-----------------------------------------------------------------------------
\* C14 (as claimed): in fit, every time stamp of the training feature table is
\* a time stamp of the target series, and when the estimator's fit is invoked
\* its j-th label is the target's value at the time stamp of the j-th feature
\* row; the exogenous series may extend beyond the target's range.
C14_LabelsAligned ==
    (pc = "returned" /\ outcome.op = "fit" /\ training_x.some) =>
        LET X == training_x.v
        IN  /\ \A r \in 1..Len(X.times) : RowAt(arg_series.v, X.times[r]) > 0
            /\ est_fit_calls = 1 =>
                  /\ Len(training_y) = Len(X.rows)
                  /\ \A j \in 1..Len(X.times) :
                        training_y[j] = arg_series.v.rows[RowAt(arg_series.v, X.times[j])][1]

-----------------------------------------------------------------------------
\* C15: when max_lag = 0 (no target lags, exogenous lags [0]), the feature
\* row of forecast step s is exactly the exogenous row of step s and forecast
\* s is the estimator's output on it, so no other exogenous row, no earlier
\* forecast and no training row enters it; the seed window has no rows, before
\* the first step there is no window at all, and after step s the window is
\* the single row of step s (nothing is carried from step s-1).
C15_NoCarryOver ==
    (outcome.op = "predict" /\ last_fit.ok /\ max_lag = 0) =>
        /\ IsNone(lags) /\ lags_exog = ListV(<<0>>)
        /\ self_prediction_data.v.rows = <<>>
        /\ \A s \in 1..Len(X_log) :
              /\ X_log[s].rows = << exog.v.rows[s] >>
              /\ s <= i => forecasts[s] = predict_row(model.coef, exog.v.rows[s])
        /\ (pc = "predict" /\ i = 0) => ~prediction_data.some
        /\ (pc = "predict" /\ i >= 1) =>
              /\ prediction_data.v.rows = << <<0>> \o exog.v.rows[i] >>
              /\ prediction_data.v.times = << exog.v.times[i] >>

\* C15 witness: predict(MaxN) returned for a model with exogenous lag 0 only
\* over two exogenous columns
C15_Witness ==
    /\ pc = "returned" /\ result.some /\ last_fit.ok /\ max_lag = 0
    /\ n = MaxN /\ Len(X_log) = MaxN /\ width(exog.v) = 2
    /\ X_log[MaxN].rows = << exog.v.rows[MaxN] >>

-----------------------------------------------------------------------------
\* C16: when max_lag > 0, at the start of predict's loop and after every
\* completed step the rolling window has exactly max_lag + 1 rows: max_lag
\* known rows followed by the zero placeholder row, which stands at the time
\* stamp of the step to come.
C16_WindowSize ==
    (pc = "predict" /\ max_lag > 0) =>
        /\ prediction_data.some
        /\ Len(prediction_data.v.rows) = max_lag + 1
        /\ Len(prediction_data.v.times) = max_lag + 1
        /\ prediction_data.v.rows[max_lag + 1] = [c \in 1..width(prediction_data.v) |-> 0]
        /\ \A r \in 1..max_lag : prediction_data.v.rows[r] # prediction_data.v.rows[max_lag + 1]
        /\ last_fit.ok => prediction_data.v.times[max_lag + 1] = TrainingEnd + i + 1

\* C16 witness: the window of a model with max_lag = MaxK and exogenous lag 0
\* after the last of MaxN steps
C16_Witness ==
    /\ pc = "predict" /\ max_lag = MaxK /\ uses_lag0 /\ ~IsNone(lags)
    /\ n = MaxN /\ i = MaxN
    /\ Len(prediction_data.v.rows) = MaxK + 1

-----------------------------------------------------------------------------
\* "<name>_lag<L>"
ExpectedName(name, L) == name \o "_lag" \o ToString(L)

\* the column sequence the claim describes: the target's lags in configured
\* order, then every exogenous column in series order, each expanded by the
\* exogenous lags in configured order
ExpectedColumns(target_name, exog_cols) ==
    LET t  == IF IsNone(lags) THEN <<>>
              ELSE [k \in 1..Len(lags.list) |-> ExpectedName(target_name, lags.list[k])]
        nl == IF IsNone(lags_exog) THEN 0 ELSE Len(lags_exog.list)
        e  == [q \in 1..(Len(exog_cols) * nl) |->
                 ExpectedName(exog_cols[((q - 1) \div nl) + 1],
                              lags_exog.list[((q - 1) % nl) + 1])]
    IN  t \o e

\* C17: the training table handed to the estimator's fit has the columns
\* "<target>_lag<L>" for the target lags in configured order, followed for
\* each exogenous column in series order by "<column>_lag<L>" for the
\* exogenous lags in configured order, and the feature row of every predict
\* step has the same column sequence.
C17_ColumnOrder ==
    /\ (pc = "returned" /\ outcome.op = "fit" /\ est_fit_calls = 1) =>
          training_x.v.cols =
            ExpectedColumns(arg_series.v.cols[1], IF exog.some THEN exog.v.cols ELSE <<>>)
    /\ last_fit.ok =>
          last_fit.cols =
            ExpectedColumns(last_fit.series.cols[1],
                            IF last_fit.exog.some THEN last_fit.exog.v.cols ELSE <<>>)
    /\ (outcome.op = "predict" /\ last_fit.ok) =>
          \A s \in 1..Len(X_log) : X_log[s].cols = last_fit.cols

\* C17 witness: a predict step's row for target lags [MaxK, 1] and exogenous
\* lags [0, MaxK] over the exogenous columns a and b
C17_Witness ==
    /\ outcome.op = "predict" /\ last_fit.ok /\ Len(X_log) >= 1
    /\ lags = ListV(<<MaxK, 1>>) /\ lags_exog = ListV(<<0, MaxK>>)
    /\ X_log[1].cols = << "y_lag" \o ToString(MaxK), "y_lag1",
                          "a_lag0", "a_lag" \o ToString(MaxK),
                          "b_lag0", "b_lag" \o ToString(MaxK) >>

-----------------------------------------------------------------------------
\* the last max_lag rows of the training data, target value first and then
\* the exogenous values
SeedRows(series, a_exog) ==
    LET N == Len(series.rows)
    IN  [k \in 1..max_lag |->
           series.rows[N - max_lag + k]
             \o (IF a_exog.some THEN a_exog.v.rows[N - max_lag + k] ELSE <<>>)]

\* C18: a successful fit of an already fitted model on other data leaves a
\* Fitted State that is a function of this fit's arguments only (target
\* column, exogenous columns, exogenous block width, seed window = the last
\* max_lag rows of the new training data), and every predict call enters its
\* loop with the last max_lag rows of the data of the most recent fit,
\* followed by the placeholder row.
C18_Refit ==
    /\ (pc = "returned" /\ outcome.op = "fit" /\ outcome.refit) =>
          /\ fit_called
          /\ training_series = arg_series
          /\ target_column = Some(arg_series.v.cols[1])
          /\ exog_columns = (IF exog.some THEN Some(exog.v.cols) ELSE Nothing)
          /\ nr_exog = (IF exog.some THEN width(exog.v) * Len(lags_exog.list) ELSE 0)
          /\ self_prediction_data.some
          /\ self_prediction_data.v.rows = SeedRows(arg_series.v, exog)
          /\ self_prediction_data.v.cols =
                arg_series.v.cols \o (IF exog.some THEN exog.v.cols ELSE <<>>)
    /\ (pc = "predict" /\ i = 0 /\ last_fit.ok /\ max_lag > 0) =>
          /\ SubSeq(prediction_data.v.rows, 1, max_lag) = SeedRows(last_fit.series, last_fit.exog)
          /\ \A k \in 1..max_lag :
                prediction_data.v.times[k] = end_time(last_fit.series) - max_lag + k

\* C18 witness: a second fit, with two exogenous columns, has replaced the
\* seed window of an earlier fit
C18_Witness ==
    /\ pc = "returned" /\ outcome.op = "fit" /\ outcome.refit
    /\ exog.some /\ width(exog.v) = 2 /\ max_lag = MaxK
    /\ Len(arg_series.v.rows) = TrainLen + 1
    /\ self_prediction_data.v.rows = SeedRows(arg_series.v, exog)

-----------------------------------------------------------------------------
\* C19 (as claimed): after a successful fit whose target column carries the
\* name of an exogenous column, the stored target column identifier differs
\* from every stored exogenous column identifier and names exactly one column
\* of the seed window.
C19_SentinelRename ==
    (/\ pc = "returned" /\ outcome.op = "fit" /\ outcome.err = NoError
     /\ exog.some /\ InSeq(arg_series.v.cols[1], exog.v.cols)) =>
        /\ ~InSeq(target_column.v, exog_columns.v)
        /\ Len(ColIdx(self_prediction_data.v.cols, target_column.v)) = 1

-----------------------------------------------------------------------------
\* Every training value, every exogenous value and every estimator output of
\* the inputs is different from 0, so a 0 in a feature row can only have been
\* read from a zero-filled placeholder field.
\*
\* C20: in every predict step no value handed to the estimator is read from a
\* zero-filled placeholder field (no entry of a feature row is 0), and when
\* exogenous lag 0 is configured the lag-0 entries of the row of step s are
\* the exogenous values of step s, written over the placeholder beforehand.
C20_PlaceholderUnused ==
    outcome.op = "predict" =>
        /\ \A s \in 1..i : forecasts[s] # 0
        /\ exog.some =>
              \A r \in 1..Len(exog.v.rows), c \in 1..width(exog.v) : exog.v.rows[r][c] # 0
        /\ \A s \in 1..Len(X_log) :
              /\ \A c \in 1..Len(X_log[s].cols) : X_log[s].rows[1][c] # 0
              /\ (uses_lag0 /\ last_fit.ok) =>
                    \A c \in 1..width(last_fit.exog.v) :
                        /\ HasCol(X_log[s], ExpectedName(last_fit.exog.v.cols[c], 0))
                        /\ X_log[s].rows[1][ColOf(X_log[s],
                                                  ExpectedName(last_fit.exog.v.cols[c], 0))]
                             = exog.v.rows[s][c]

\* C20 witness: MaxN steps of a model with target lags and exogenous lags
\* [0, MaxK]: each step's row was built from a window ending in a placeholder
C20_Witness ==
    /\ pc = "returned" /\ result.some /\ n = MaxN /\ Len(X_log) = MaxN
    /\ ~IsNone(lags) /\ lags_exog = ListV(<<0, MaxK>>)
    /\ \A s \in 1..MaxN : \A c \in 1..Len(X_log[s].cols) : X_log[s].rows[1][c] # 0
    /\ dummy_row = << [c \in 1..(1 + width(exog.v)) |-> 0] >>

====
